---- MODULE Spec2Model ----
(***************************************************************************)
(* Address hashing functions of gpgpu-sim (src/gpgpu-sim/hashing.cc):      *)
(* ipoly_hash_function, bitwise_hash_function and PAE_hash_function.       *)
(* The functions are pure; the state machine is one call of one of them:   *)
(* the arguments are chosen in Init, and the action of the called function *)
(* computes the returned value or stops in the failed assertion.           *)
(***************************************************************************)
EXTENDS Integers, Sequences, FiniteSets

VARIABLES func, arg_higher_bits, arg_index, arg_bank_set_num, pc, ret

vars == <<func, arg_higher_bits, arg_index, arg_bank_set_num, pc, ret>>

(* ---- bounds of the model ---- *)
\* highest bit of higher_bits that the drawn arguments set
MaxHighBit == 23
\* the drawn index ranges over 0 .. IndexSpan * bank_set_num - 1
IndexSpan == 2

(* ---- std::bitset and integer bit operations ---- *)
\* std::bitset<W>(v): bit i of v for i < W, bit 0 the least significant
bitset(W, v) == [i \in 0..(W - 1) |-> (v \div (2 ^ i)) % 2]

\* variant of Xor: the bits are or-ed
Xor_as_or(s) == IF \E i \in DOMAIN s : s[i] = 1 THEN 1 ELSE 0

\* x0 ^ x1 ^ ... on single bits
Xor(s) == Cardinality({i \in DOMAIN s : s[i] = 1}) % 2

\* variant of to_ulong: every bit weighs one position too high
RECURSIVE to_ulong_shifted(_)
to_ulong_shifted(s) ==
    IF s = <<>> THEN 0 ELSE 2 * Head(s) + 2 * to_ulong_shifted(Tail(s))

\* std::bitset<n>::to_ulong of the bits <<new_index[0], ..., new_index[n-1]>>
RECURSIVE to_ulong(_)
to_ulong(s) ==
    IF s = <<>> THEN 0 ELSE Head(s) + 2 * to_ulong(Tail(s))

\* x & y on unsigned integers
RECURSIVE BitAnd(_, _)
BitAnd(x, y) ==
    IF x = 0 \/ y = 0 THEN 0
    ELSE ((x % 2) * (y % 2)) + 2 * BitAnd(x \div 2, y \div 2)

\* x ^ y on unsigned integers
RECURSIVE BitXor(_, _)
BitXor(x, y) ==
    IF x = 0 THEN y
    ELSE IF y = 0 THEN x
    ELSE (((x % 2) + (y % 2)) % 2) + 2 * BitXor(x \div 2, y \div 2)

\* the else branches, "assert(0); return 0;": what the call does there depends
\* on the build (see Return), the operators give this value, which is no index
Unsupported == -1

(* ---- ipoly_hash_function, one bit matrix per bank count ---- *)
\* variant of ipoly_8: new_index[0] leaves out b[0]
ipoly_8_without_b0(higher_bits, index) ==
    LET a == bitset(64, higher_bits)
        b == bitset(3, index)
        new_index0 == Xor(<<a[11], a[10], a[9], a[7],
                            a[4], a[3], a[2], a[0]>>)
        new_index1 == Xor(<<a[12], a[9], a[8], a[7],
                            a[5], a[2], a[1], a[0], b[1]>>)
        new_index2 == Xor(<<a[13], a[10], a[9], a[8],
                            a[6], a[3], a[2], a[1], b[2]>>)
    IN  to_ulong(<<new_index0, new_index1, new_index2>>)

ipoly_8(higher_bits, index) ==
    LET a == bitset(64, higher_bits)
        b == bitset(3, index)
        new_index0 == Xor(<<a[11], a[10], a[9], a[7],
                            a[4], a[3], a[2], a[0], b[0]>>)
        new_index1 == Xor(<<a[12], a[9], a[8], a[7],
                            a[5], a[2], a[1], a[0], b[1]>>)
        new_index2 == Xor(<<a[13], a[10], a[9], a[8],
                            a[6], a[3], a[2], a[1], b[2]>>)
    IN  to_ulong(<<new_index0, new_index1, new_index2>>)

ipoly_16(higher_bits, index) ==
    LET a == bitset(64, higher_bits)
        b == bitset(4, index)
        new_index0 == Xor(<<a[11], a[10], a[9], a[8],
                            a[6], a[4], a[3], a[0], b[0]>>)
        new_index1 == Xor(<<a[12], a[8], a[7], a[6],
                            a[5], a[3], a[1], a[0], b[1]>>)
        new_index2 == Xor(<<a[9], a[8], a[7], a[6], a[4], a[2], a[1], b[2]>>)
        new_index3 == Xor(<<a[10], a[9], a[8], a[7], a[5], a[3], a[2], b[3]>>)
    IN  to_ulong(<<new_index0, new_index1, new_index2, new_index3>>)

\* variant of ipoly_32: new_index[0] has the cross-term b[3] of PAE_32
ipoly_32_with_b3(higher_bits, index) ==
    LET a == bitset(64, higher_bits)
        b == bitset(5, index)
        new_index0 == Xor(<<a[13], a[12], a[11], a[10], a[9],
                            a[6], a[5], a[3], a[0], b[3], b[0]>>)
        new_index1 == Xor(<<a[14], a[13], a[12], a[11], a[10],
                            a[7], a[6], a[4], a[1], b[1]>>)
        new_index2 == Xor(<<a[14], a[10], a[9], a[8], a[7],
                            a[6], a[3], a[2], a[0], b[2]>>)
        new_index3 == Xor(<<a[11], a[10], a[9], a[8],
                            a[7], a[4], a[3], a[1], b[3]>>)
        new_index4 == Xor(<<a[12], a[11], a[10], a[9],
                            a[8], a[5], a[4], a[2], b[4]>>)
    IN  to_ulong(<<new_index0, new_index1, new_index2, new_index3, new_index4>>)

ipoly_32(higher_bits, index) ==
    LET a == bitset(64, higher_bits)
        b == bitset(5, index)
        new_index0 == Xor(<<a[13], a[12], a[11], a[10], a[9],
                            a[6], a[5], a[3], a[0], b[0]>>)
        new_index1 == Xor(<<a[14], a[13], a[12], a[11], a[10],
                            a[7], a[6], a[4], a[1], b[1]>>)
        new_index2 == Xor(<<a[14], a[10], a[9], a[8], a[7],
                            a[6], a[3], a[2], a[0], b[2]>>)
        new_index3 == Xor(<<a[11], a[10], a[9], a[8],
                            a[7], a[4], a[3], a[1], b[3]>>)
        new_index4 == Xor(<<a[12], a[11], a[10], a[9],
                            a[8], a[5], a[4], a[2], b[4]>>)
    IN  to_ulong(<<new_index0, new_index1, new_index2, new_index3, new_index4>>)

ipoly_64(higher_bits, index) ==
    LET a == bitset(64, higher_bits)
        b == bitset(6, index)
        new_index0 == Xor(<<a[18], a[17], a[16], a[15], a[12],
                            a[10], a[6], a[5], a[0], b[0]>>)
        new_index1 == Xor(<<a[15], a[13], a[12], a[11], a[10],
                            a[7], a[5], a[1], a[0], b[1]>>)
        new_index2 == Xor(<<a[16], a[14], a[13], a[12], a[11],
                            a[8], a[6], a[2], a[1], b[2]>>)
        new_index3 == Xor(<<a[17], a[15], a[14], a[13], a[12],
                            a[9], a[7], a[3], a[2], b[3]>>)
        new_index4 == Xor(<<a[18], a[16], a[15], a[14], a[13],
                            a[10], a[8], a[4], a[3], b[4]>>)
        new_index5 == Xor(<<a[17], a[16], a[15], a[14],
                            a[11], a[9], a[5], a[4], b[5]>>)
    IN  to_ulong(<<new_index0, new_index1, new_index2, new_index3, new_index4, new_index5>>)

ipoly_128(higher_bits, index) ==
    LET a == bitset(64, higher_bits)
        b == bitset(7, index)
        new_index0 == Xor(<<a[21], a[20], a[19], a[18], a[14],
                            a[12], a[7], a[6], a[0], b[0]>>)
        new_index1 == Xor(<<a[22], a[18], a[15], a[14], a[13],
                            a[12], a[8], a[6], a[1], a[0], b[1]>>)
        new_index2 == Xor(<<a[19], a[16], a[15], a[14], a[13],
                            a[9], a[7], a[2], a[1], b[2]>>)
        new_index3 == Xor(<<a[20], a[17], a[16], a[15], a[14],
                            a[10], a[8], a[3], a[2], b[3]>>)
        new_index4 == Xor(<<a[21], a[18], a[17], a[16], a[15],
                            a[11], a[9], a[4], a[3], b[4]>>)
        new_index5 == Xor(<<a[22], a[19], a[18], a[17], a[16],
                            a[12], a[10], a[5], a[4], b[5]>>)
        new_index6 == Xor(<<a[20], a[19], a[18], a[17],
                            a[13], a[11], a[6], a[5], b[6]>>)
    IN  to_ulong(<<new_index0, new_index1, new_index2, new_index3, new_index4, new_index5, new_index6>>)

\* variant of ipoly_256: new_index[7] takes b[6] in the place of b[7]
ipoly_256_b6_twice(higher_bits, index) ==
    LET a == bitset(64, higher_bits)
        b == bitset(8, index)
        new_index0 == Xor(<<a[21], a[20], a[19], a[17], a[16], a[13],
                            a[12], a[10], a[7], a[5], a[4], a[0], b[0]>>)
        new_index1 == Xor(<<a[19], a[18], a[16], a[14], a[12], a[11], a[10],
                            a[8], a[7], a[6], a[4], a[1], a[0], b[1]>>)
        new_index2 == Xor(<<a[20], a[19], a[17], a[15], a[13], a[12], a[11],
                            a[9], a[8], a[7], a[5], a[2], a[1], b[2]>>)
        new_index3 == Xor(<<a[19], a[18], a[17], a[14], a[9], a[8], a[7],
                            a[6], a[5], a[4], a[3], a[2], a[0], b[3]>>)
        new_index4 == Xor(<<a[21], a[18], a[17], a[16], a[15], a[13], a[12],
                            a[9], a[8], a[6], a[3], a[1], a[0], b[4]>>)
        new_index5 == Xor(<<a[19], a[18], a[17], a[16], a[14], a[13],
                            a[10], a[9], a[7], a[4], a[2], a[1], b[5]>>)
        new_index6 == Xor(<<a[20], a[19], a[18], a[17], a[15], a[14],
                            a[11], a[10], a[8], a[5], a[3], a[2], b[6]>>)
        new_index7 == Xor(<<a[21], a[20], a[19], a[18], a[16], a[15],
                            a[12], a[11], a[9], a[6], a[4], a[3], b[6]>>)
    IN  to_ulong(<<new_index0, new_index1, new_index2, new_index3, new_index4, new_index5, new_index6, new_index7>>)

ipoly_256(higher_bits, index) ==
    LET a == bitset(64, higher_bits)
        b == bitset(8, index)
        new_index0 == Xor(<<a[21], a[20], a[19], a[17], a[16], a[13],
                            a[12], a[10], a[7], a[5], a[4], a[0], b[0]>>)
        new_index1 == Xor(<<a[19], a[18], a[16], a[14], a[12], a[11], a[10],
                            a[8], a[7], a[6], a[4], a[1], a[0], b[1]>>)
        new_index2 == Xor(<<a[20], a[19], a[17], a[15], a[13], a[12], a[11],
                            a[9], a[8], a[7], a[5], a[2], a[1], b[2]>>)
        new_index3 == Xor(<<a[19], a[18], a[17], a[14], a[9], a[8], a[7],
                            a[6], a[5], a[4], a[3], a[2], a[0], b[3]>>)
        new_index4 == Xor(<<a[21], a[18], a[17], a[16], a[15], a[13], a[12],
                            a[9], a[8], a[6], a[3], a[1], a[0], b[4]>>)
        new_index5 == Xor(<<a[19], a[18], a[17], a[16], a[14], a[13],
                            a[10], a[9], a[7], a[4], a[2], a[1], b[5]>>)
        new_index6 == Xor(<<a[20], a[19], a[18], a[17], a[15], a[14],
                            a[11], a[10], a[8], a[5], a[3], a[2], b[6]>>)
        new_index7 == Xor(<<a[21], a[20], a[19], a[18], a[16], a[15],
                            a[12], a[11], a[9], a[6], a[4], a[3], b[7]>>)
    IN  to_ulong(<<new_index0, new_index1, new_index2, new_index3, new_index4, new_index5, new_index6, new_index7>>)

ipoly_hash_function(higher_bits, index, bank_set_num) ==
    IF bank_set_num = 8 THEN ipoly_8(higher_bits, index)
    ELSE IF bank_set_num = 16 THEN ipoly_16(higher_bits, index)
    ELSE IF bank_set_num = 32 THEN ipoly_32(higher_bits, index)
    ELSE IF bank_set_num = 64 THEN ipoly_64(higher_bits, index)
    ELSE IF bank_set_num = 128 THEN ipoly_128(higher_bits, index)
    ELSE IF bank_set_num = 256 THEN ipoly_256(higher_bits, index)
    ELSE Unsupported

(* ---- bitwise_hash_function ---- *)
\* variant of bitwise_hash_function: the mask is bank_set_num
bitwise_hash_function_mask_n(higher_bits, index, bank_set_num) ==
    BitXor(index, BitAnd(higher_bits, bank_set_num))

\* variant of bitwise_hash_function: the masked bits are added
bitwise_hash_function_add(higher_bits, index, bank_set_num) ==
    index + BitAnd(higher_bits, bank_set_num - 1)

bitwise_hash_function(higher_bits, index, bank_set_num) ==
    BitXor(index, BitAnd(higher_bits, bank_set_num - 1))

(* ---- PAE_hash_function ---- *)
PAE_32(higher_bits, index) ==
    LET a == bitset(64, higher_bits)
        b == bitset(5, index)
        new_index0 == Xor(<<a[13], a[10], a[9], a[5],
                            a[0], b[3], b[0], b[0]>>)
        new_index1 == Xor(<<a[12], a[11], a[6], a[1],
                            b[3], b[2], b[1], b[1]>>)
        new_index2 == Xor(<<a[14], a[9], a[8], a[7], a[2], b[1], b[2]>>)
        new_index3 == Xor(<<a[11], a[10], a[8], a[3], b[2], b[3], b[3]>>)
        new_index4 == Xor(<<a[12], a[9], a[8], a[5], a[4], b[1], b[0], b[4]>>)
    IN  to_ulong(<<new_index0, new_index1, new_index2, new_index3, new_index4>>)

PAE_hash_function(higher_bits, index, bank_set_num) ==
    IF bank_set_num = 32 THEN PAE_32(higher_bits, index)
    ELSE Unsupported

(* ---- the arguments of a call ---- *)
Functions == {"ipoly", "bitwise", "PAE"}

BankCounts == {1, 2, 4, 7, 8, 12, 16, 32, 64, 128, 256}

HighBitsValues ==
    {0, 21, 2 ^ (MaxHighBit + 1) - 1} \cup {2 ^ k : k \in 0..MaxHighBit}

Init ==
    /\ func \in Functions
    /\ arg_bank_set_num \in BankCounts
    /\ arg_higher_bits \in HighBitsValues
    /\ arg_index \in 0..(IndexSpan * arg_bank_set_num - 1)
    /\ pc = "call"
    /\ ret = 0

\* The end of a call.  In a supported configuration the caller receives the
\* value.  In the else branch, assert(0) stops the program when assertions
\* are compiled in, and with NDEBUG defined the assertion is compiled out and
\* "return 0" hands 0 to the caller: both builds are possible.
Return(r) ==
    IF r = Unsupported
    THEN \/ pc' = "aborted" /\ UNCHANGED ret
         \/ pc' = "returned" /\ ret' = 0
    ELSE pc' = "returned" /\ ret' = r

IpolyCall ==
    /\ pc = "call"
    /\ func = "ipoly"
    /\ Return(ipoly_hash_function(arg_higher_bits, arg_index, arg_bank_set_num))
    /\ UNCHANGED <<func, arg_higher_bits, arg_index, arg_bank_set_num>>

BitwiseCall ==
    /\ pc = "call"
    /\ func = "bitwise"
    /\ pc' = "returned"
    /\ ret' = bitwise_hash_function(arg_higher_bits, arg_index, arg_bank_set_num)
    /\ UNCHANGED <<func, arg_higher_bits, arg_index, arg_bank_set_num>>

PAECall ==
    /\ pc = "call"
    /\ func = "PAE"
    /\ Return(PAE_hash_function(arg_higher_bits, arg_index, arg_bank_set_num))
    /\ UNCHANGED <<func, arg_higher_bits, arg_index, arg_bank_set_num>>

Next == IpolyCall \/ BitwiseCall \/ PAECall

Spec == Init /\ [][Next]_vars

(* ---- shorthands for the state of the call ---- *)
IpolyBankCounts == {8, 16, 32, 64, 128, 256}

PAEBankCounts == {32}

PowersOfTwo == {2 ^ k : k \in 0..8}

IpolyReturned ==
    func = "ipoly" /\ pc = "returned" /\ arg_bank_set_num \in IpolyBankCounts

PAEReturned ==
    func = "PAE" /\ pc = "returned" /\ arg_bank_set_num \in PAEBankCounts

BitwiseReturned ==
    func = "bitwise" /\ pc = "returned" /\ arg_bank_set_num \in PowersOfTwo

InRange == arg_index < arg_bank_set_num

\* bit k of the unsigned integer v
BitOf(v, k) == (v \div (2 ^ k)) % 2

\* the positions of the bits of an unsigned integer of the model
BitPositions == 0..(MaxHighBit + 2)

\* log2 of a power of two
Log2(n) == CHOOSE k \in 0..8 : 2 ^ k = n

(* ---- C1 ---- *)
\* C1: for every supported bank count and every fixed higher_bits,
\* ipoly_hash_function restricted to index in [0, bank_set_num) is a
\* bijection onto [0, bank_set_num): the returned value is in the range and
\* no other in-range index gives the same value.  (Every in-range index is
\* the argument of a reachable call, so each pair of distinct indices is
\* compared in the state whose argument is the larger of the two.)
C1_IpolyBijection ==
    (IpolyReturned /\ InRange) =>
        /\ ret \in 0..(arg_bank_set_num - 1)
        /\ \A i2 \in 0..(arg_index - 1) :
              ipoly_hash_function(arg_higher_bits, i2, arg_bank_set_num) # ret

C1_Witness ==
    /\ IpolyReturned
    /\ arg_bank_set_num = 256
    /\ arg_higher_bits = 2 ^ 21
    /\ arg_index = 255
    /\ ret # arg_index

(* ---- C2 ---- *)
\* C2: for bank count 32 and every fixed higher_bits, PAE_hash_function
\* restricted to index in [0, 32) is a bijection onto [0, 32): the returned
\* value is in the range and no other in-range index gives the same value.
C2_PAEBijection ==
    (PAEReturned /\ InRange) =>
        /\ ret \in 0..(arg_bank_set_num - 1)
        /\ \A i2 \in 0..(arg_bank_set_num - 1) :
              i2 # arg_index =>
                PAE_hash_function(arg_higher_bits, i2, arg_bank_set_num) # ret

(* ---- C3 ---- *)
\* C3: a call of ipoly_hash_function with a bank count outside
\* {8, 16, 32, 64, 128, 256}, and a call of PAE_hash_function with a bank
\* count other than 32, ends in the fatal condition and never returns a
\* value to the caller.
C3_UnsupportedIsFatal ==
    ( /\ pc # "call"
      /\ \/ func = "ipoly" /\ arg_bank_set_num \notin IpolyBankCounts
         \/ func = "PAE" /\ arg_bank_set_num \notin PAEBankCounts )
    => pc = "aborted"

(* ---- C4 ---- *)
\* C4: for every supported bank count, every higher_bits and every index,
\* also an index >= bank_set_num, the value returned by ipoly_hash_function
\* and by PAE_hash_function lies in [0, bank_set_num).
C4_ResultInRange ==
    (IpolyReturned \/ PAEReturned) => ret \in 0..(arg_bank_set_num - 1)

C4_Witness ==
    /\ IpolyReturned
    /\ arg_bank_set_num = 64
    /\ arg_index = 64 + 37
    /\ arg_higher_bits = 2 ^ (MaxHighBit + 1) - 1
    /\ ret < 64

(* ---- C5 ---- *)
\* The j-th address of the stride 2^k, split as the caller splits it:
\* index = X mod bank_set_num and higher_bits = X div bank_set_num for
\* X = j * 2^k.
StrideIndex(j, k, n) ==
    IF k >= Log2(n) THEN 0 ELSE (j * (2 ^ k)) % n

StrideHigh(j, k, n) ==
    IF k >= Log2(n) THEN j * (2 ^ (k - Log2(n))) ELSE (j * (2 ^ k)) \div n

\* the strides 2^k whose addresses 0, 2^k, ..., (n-1) * 2^k fit in the
\* address bits of the model (higher_bits of MaxHighBit + 1 bits)
Strides == 0..(MaxHighBit + 1)

\* C5: IPOLY hashing is conflict-free for all power-of-two strides: for
\* every supported bank count n and every stride 2^k, the n addresses
\* 0, 2^k, ..., (n-1) * 2^k are mapped to n pairwise distinct hashed
\* indices.  (Stated of the call whose address is the j-th of a stride:
\* no other address of that stride is mapped to the returned value.)
C5_ConflictFreeStrides ==
    IpolyReturned =>
        \A k \in Strides : \A j \in 1..(arg_bank_set_num - 1) :
            ( /\ arg_index = StrideIndex(j, k, arg_bank_set_num)
              /\ arg_higher_bits = StrideHigh(j, k, arg_bank_set_num) )
            => \A j2 \in 0..(arg_bank_set_num - 1) :
                  j2 # j =>
                    ipoly_hash_function(StrideHigh(j2, k, arg_bank_set_num),
                                        StrideIndex(j2, k, arg_bank_set_num),
                                        arg_bank_set_num) # ret

(* ---- C6 ---- *)
\* index XOR (higher_bits AND (bank_set_num - 1)), bit by bit: for a power
\* of two, the masked higher_bits are higher_bits modulo bank_set_num.
IsIndexXorMaskedHigh(r) ==
    \A k \in BitPositions :
        BitOf(r, k) =
            (BitOf(arg_index, k)
               + BitOf(arg_higher_bits % arg_bank_set_num, k)) % 2

BitwiseExample(h, i, n) ==
    /\ func = "bitwise"
    /\ pc = "returned"
    /\ arg_higher_bits = h
    /\ arg_index = i
    /\ arg_bank_set_num = n

\* C6 as stated: bitwise_hash_function returns
\* index XOR (higher_bits AND (bank_set_num - 1)) for every power-of-two
\* bank count; bitwise_hash(0b100000, 0b00101, 32) = 0b00101 and
\* bitwise_hash(0b10101, 0b00101, 32) = 0b00000.
C6_BitwiseAsStated ==
    /\ BitwiseReturned => IsIndexXorMaskedHigh(ret)
    /\ BitwiseExample(32, 5, 32) => ret = 5
    /\ BitwiseExample(21, 5, 32) => ret = 0

\* C6 amended: bitwise_hash_function returns
\* index XOR (higher_bits AND (bank_set_num - 1)) for every power-of-two
\* bank count; bitwise_hash(0b100000, 0b00101, 32) = 0b00101 and
\* bitwise_hash(0b10101, 0b00101, 32) = 0b10000.
C6_BitwiseMasking ==
    /\ BitwiseReturned => IsIndexXorMaskedHigh(ret)
    /\ BitwiseExample(32, 5, 32) => ret = 5
    /\ BitwiseExample(21, 5, 32) => ret = 16

C6_Witness == BitwiseExample(21, 5, 32) /\ ret = 16

(* ---- C7 ---- *)
\* C7: for ipoly_hash_function with higher_bits = 0 and bank count in
\* {8, 16, 64, 128}, the result equals index for every index in
\* [0, bank_set_num); bank count 8, higher_bits 0, index 5 gives 5.
C7_IdentityAtZero ==
    ( /\ IpolyReturned
      /\ arg_bank_set_num \in {8, 16, 64, 128}
      /\ arg_higher_bits = 0
      /\ InRange )
    => ret = arg_index

C7_Witness ==
    /\ IpolyReturned
    /\ arg_bank_set_num = 8
    /\ arg_higher_bits = 0
    /\ arg_index = 5
    /\ ret = 5

(* ---- C8 ---- *)
\* output bit k of ipoly_hash_function(h, i, n) changes when bit j of the
\* index i changes
IndexBitReaches(h, i, n, j, k) ==
    BitOf(ipoly_hash_function(h, BitXor(i, 2 ^ j), n), k)
        # BitOf(ipoly_hash_function(h, i, n), k)

Ipoly32Returned == IpolyReturned /\ arg_bank_set_num = 32 /\ InRange

\* C8 as stated: for bank count 32, cross-terms among the index bits appear
\* in the output of ipoly_hash_function: some output bit k depends on an
\* index bit other than bit k, so that with higher_bits = 0 the result is
\* not equal to index for every index in [0, 32).
C8_CrossTermsAsStated ==
    (Ipoly32Returned /\ arg_higher_bits = 0) =>
        /\ \E k \in 0..4 : \E j \in (0..4) \ {k} : \E i \in 0..31 :
              IndexBitReaches(arg_higher_bits, i, 32, j, k)
        /\ \E i \in 0..31 : ipoly_hash_function(arg_higher_bits, i, 32) # i

\* C8 amended: for bank count 32, no cross-terms among the index bits
\* appear in the output of ipoly_hash_function: index bit j reaches output
\* bit j and no other output bit, so that with higher_bits = 0 the result
\* equals index for every index in [0, 32).
C8_NoCrossTerms ==
    Ipoly32Returned =>
        /\ \A j \in 0..4 :
              ipoly_hash_function(arg_higher_bits, BitXor(arg_index, 2 ^ j), 32)
                  = BitXor(ret, 2 ^ j)
        /\ arg_higher_bits = 0 => ret = arg_index

C8_Witness ==
    /\ Ipoly32Returned
    /\ arg_higher_bits = 0
    /\ arg_index = 21
    /\ ret = 21

(* ---- C9 ---- *)
\* the function of the call
hash(h, i, n) ==
    IF func = "ipoly" THEN ipoly_hash_function(h, i, n)
    ELSE IF func = "PAE" THEN PAE_hash_function(h, i, n)
    ELSE bitwise_hash_function(h, i, n)

\* the second arguments of the sums
SummandHighBits == {0, 21, 2 ^ 11 + 2 ^ 3, 2 ^ (MaxHighBit + 1) - 1}

SummandIndices(n) == {0, 1, n \div 2, n - 1}

\* C9: for a fixed supported bank count each of the three functions is a
\* linear map over GF(2) of its arguments: hash(h1 XOR h2, i1 XOR i2, n) =
\* hash(h1, i1, n) XOR hash(h2, i2, n) for in-range indices, and
\* hash(0, 0, n) = 0.
C9_Linear ==
    ((IpolyReturned \/ PAEReturned \/ BitwiseReturned) /\ InRange) =>
        /\ \A h2 \in SummandHighBits :
              \A i2 \in SummandIndices(arg_bank_set_num) :
                  hash(BitXor(arg_higher_bits, h2), BitXor(arg_index, i2),
                       arg_bank_set_num)
                      = BitXor(ret, hash(h2, i2, arg_bank_set_num))
        /\ (arg_higher_bits = 0 /\ arg_index = 0) => ret = 0

C9_Witness ==
    /\ PAEReturned
    /\ arg_higher_bits = 21
    /\ arg_index = 9
    /\ ret # 0
    /\ ret # arg_index

(* ---- C10 ---- *)
\* C10: for every power-of-two bank count, every higher_bits and every
\* index in [0, bank_set_num), bitwise_hash_function returns a value in
\* [0, bank_set_num), and applying it again gives the index back.
C10_BitwiseInvolution ==
    (BitwiseReturned /\ InRange) =>
        /\ ret \in 0..(arg_bank_set_num - 1)
        /\ bitwise_hash_function(arg_higher_bits, ret, arg_bank_set_num)
               = arg_index

C10_Witness ==
    /\ BitwiseReturned
    /\ arg_bank_set_num = 16
    /\ arg_higher_bits = 21
    /\ arg_index = 3
    /\ ret = 6

====
